---- MODULE Spec2Model ----
(***************************************************************************)
(* Study Tracker API: the authentication and per-user ownership model of   *)
(* main.py over the tables of models.py.  Every handler is one action: the *)
(* identity resolver it depends on, its queries, its unit of work and the  *)
(* commit, with the store's primary-key / unique / foreign-key checks.     *)
(***************************************************************************)
EXTENDS Integers, Sequences, FiniteSets, TLC

\* ------------------------------------------------------------ bounds
MaxTime == 3
MaxTokens == 2
MaxBatch == 2

\* ------------------------------------------------------------ input sets
Emails == {"a@x.com", "b@x.com"}
Passwords == {"pw123"}
LoginAttempts == Passwords \cup {"wrong"}
GoalIds == {"g1", "g2"}
Titles == {"Finals"}
SubjectIds == {"s1", "s2"}
Names == {"Math"}
NotifIds == {"n1", "n2"}
Statuses == {"PENDING", "COMPLETED"}
Dialects == {"sqlite", "postgresql"}
Slots == {1, 2}

\* ------------------------------------------------------------ state
VARIABLES
    dialect,        \* which store engine DATABASE_URL selects
    users,          \* table users
    goals,          \* table goals
    subjects,       \* table subjects
    chapters,       \* table chapters
    notifications,  \* table notifications
    now,            \* the clock jwt.decode reads
    issued,         \* the bearer tokens POST /token has returned
    last,           \* the last request and its response
    reqs            \* requests in flight, between their query and their commit

store == <<users, goals, subjects, chapters, notifications>>
vars == <<dialect, users, goals, subjects, chapters, notifications, now, issued, last, reqs>>

\* ------------------------------------------------------------ auth.py (credential store, token service)
TTL == 2

None == "None"

get_password_hash(password) == <<"hash", password>>

verify_password(password, hashed) == hashed = get_password_hash(password)

create_access_token(sub, t) == [sub |-> sub, exp |-> t + TTL, sig |-> "good"]

\* Tokens the server did not return in this run: a wrong signature, a good
\* signature without a "sub" claim, a good signature for some email.
BadSignatureToken == [sub |-> "a@x.com", exp |-> MaxTime + TTL + 1, sig |-> "bad"]
NoSubToken == [sub |-> None, exp |-> MaxTime + TTL + 1, sig |-> "good"]
ForeignTokens == {[sub |-> e, exp |-> MaxTime + TTL + 1, sig |-> "good"] : e \in Emails}

\* ------------------------------------------------------------ responses
NoArgs == <<>>
NoToken == [sub |-> None, exp |-> 0, sig |-> "none"]

\* removed: the ids of the dependent rows the request's DELETE took with it.
Resp(op, token, caller, args, status, detail, body, cause) ==
    [op |-> op, token |-> token, caller |-> caller, args |-> args,
     status |-> status, detail |-> detail, body |-> body, cause |-> cause,
     removed |-> {}]

credentials_exception == [status |-> 401, detail |-> "Could not validate credentials"]

\* (variant: the "exp" claim is not verified)
JwtDecodeIgnoringExp(token, t) ==
    IF token.sig = "good" THEN [ok |-> TRUE, sub |-> token.sub]
    ELSE [ok |-> FALSE, sub |-> None]

\* jwt.decode: JWTError on a bad signature or an elapsed "exp", else the payload.
JwtDecode(token, t) ==
    IF token.sig = "good" /\ t <= token.exp THEN [ok |-> TRUE, sub |-> token.sub]
    ELSE [ok |-> FALSE, sub |-> None]

UserByEmail(email) == {u \in users : u.email = email}

NoUser == [id |-> 0, email |-> None, hashed_password |-> <<"hash", None>>]

Unauthenticated(cause, exc) ==
    [ok |-> FALSE, user |-> NoUser, cause |-> cause, status |-> exc.status, detail |-> exc.detail]

\* (variant: an unknown user is answered 404 instead of credentials_exception)
GetCurrentUserLeaky(token) ==
    LET payload == JwtDecode(token, now) IN
    IF ~payload.ok THEN Unauthenticated("invalid_token", credentials_exception)
    ELSE IF payload.sub = None THEN Unauthenticated("no_claim", credentials_exception)
    ELSE IF UserByEmail(payload.sub) = {}
         THEN Unauthenticated("unknown_user", [status |-> 404, detail |-> "User not found"])
    ELSE [ok |-> TRUE, user |-> CHOOSE u \in UserByEmail(payload.sub) : TRUE,
          cause |-> "", status |-> 200, detail |-> ""]

\* The identity resolver every protected handler depends on.
get_current_user(token) ==
    LET payload == JwtDecode(token, now) IN
    IF ~payload.ok THEN Unauthenticated("invalid_token", credentials_exception)
    ELSE IF payload.sub = None THEN Unauthenticated("no_claim", credentials_exception)
    ELSE IF UserByEmail(payload.sub) = {}
         THEN Unauthenticated("unknown_user", credentials_exception)
    ELSE [ok |-> TRUE, user |-> CHOOSE u \in UserByEmail(payload.sub) : TRUE,
          cause |-> "", status |-> 200, detail |-> ""]

\* A protected handler whose dependency raised: the handler body never runs.
Rejected(op, token, args, auth) ==
    /\ last' = Resp(op, token, 0, args, auth.status, auth.detail, {}, auth.cause)
    /\ UNCHANGED <<dialect, users, goals, subjects, chapters, notifications, now, issued, reqs>>

\* ------------------------------------------------------------ the store's constraints
FkEnforced == dialect = "postgresql"

PkExists(table, id) == \E r \in table : r.id = id

\* (variant: a table without its primary key)
InsertAllowedNoPk(table, id) == TRUE

\* An INSERT passes the table's primary-key constraint.
InsertAllowed(table, id) == ~PkExists(table, id)

\* subjects.goal_id REFERENCES goals.id, checked only where the engine enforces it.
GoalFkHolds(goal_id) == ~FkEnforced \/ PkExists(goals, goal_id)

\* The filtered lookup .filter(E.id == id, E.owner_id == current_user.id).first()
FindOwned(table, id, owner) == {r \in table : r.id = id /\ r.owner_id = owner}

\* (variant: the owner filter is missing)
ListAll(table, owner) == table

\* The filtered listing .filter(E.owner_id == current_user.id).all()
ListOwned(table, owner) == {r \in table : r.owner_id = owner}

\* ------------------------------------------------------------ POST /signup, POST /token
\* (variant: signup does not look the email up)
EmailRegisteredUnchecked(email) == FALSE

\* db.query(User).filter(User.email == user.email).first()
EmailRegistered(email) == UserByEmail(email) # {}

Signup(email, password) ==
    LET new_user == [id |-> Cardinality(users) + 1, email |-> email,
                     hashed_password |-> get_password_hash(password)] IN
    IF EmailRegistered(email)
    THEN /\ last' = Resp("signup", NoToken, 0, <<email>>, 400, "Email already registered", {}, "")
         /\ UNCHANGED <<dialect, users, goals, subjects, chapters, notifications, now, issued, reqs>>
    ELSE IF UserByEmail(email) # {}
    THEN \* users.email is UNIQUE: the commit raises IntegrityError
         /\ last' = Resp("signup", NoToken, 0, <<email>>, 500, "IntegrityError", {}, "")
         /\ UNCHANGED <<dialect, users, goals, subjects, chapters, notifications, now, issued, reqs>>
    ELSE /\ users' = users \cup {new_user}
         /\ last' = Resp("signup", NoToken, 0, <<email>>, 200, "", {new_user}, "")
         /\ UNCHANGED <<dialect, goals, subjects, chapters, notifications, now, issued, reqs>>

Login(username, password) ==
    LET found == UserByEmail(username) IN
    IF found = {} \/ \A u \in found : ~verify_password(password, u.hashed_password)
    THEN /\ last' = Resp("token", NoToken, 0, <<username>>, 401, "Incorrect email or password", {}, "")
         /\ UNCHANGED <<dialect, users, goals, subjects, chapters, notifications, now, issued, reqs>>
    ELSE LET access_token == create_access_token(username, now) IN
         /\ Cardinality(issued \cup {access_token}) <= MaxTokens
         /\ issued' = issued \cup {access_token}
         /\ last' = Resp("token", access_token, 0, <<username>>, 200, "", {}, "")
         /\ UNCHANGED <<dialect, users, goals, subjects, chapters, notifications, now, reqs>>

Tick ==
    /\ now < MaxTime
    /\ now' = now + 1
    /\ UNCHANGED <<dialect, users, goals, subjects, chapters, notifications, issued, last, reqs>>

\* ------------------------------------------------------------ goals
ReadGoals(token) ==
    LET auth == get_current_user(token) IN
    IF ~auth.ok THEN Rejected("read_goals", token, NoArgs, auth)
    ELSE /\ last' = Resp("read_goals", token, auth.user.id, NoArgs, 200, "",
                         ListOwned(goals, auth.user.id), "")
         /\ UNCHANGED <<dialect, users, goals, subjects, chapters, notifications, now, issued, reqs>>

CreateGoal(token, id, title) ==
    LET auth == get_current_user(token)
        db_goal == [id |-> id, title |-> title, owner_id |-> auth.user.id] IN
    IF ~auth.ok THEN Rejected("create_goal", token, <<id, title>>, auth)
    ELSE IF ~InsertAllowed(goals, id)
    THEN /\ last' = Resp("create_goal", token, auth.user.id, <<id, title>>, 500, "IntegrityError", {}, "")
         /\ UNCHANGED <<dialect, users, goals, subjects, chapters, notifications, now, issued, reqs>>
    ELSE /\ goals' = goals \cup {db_goal}
         /\ last' = Resp("create_goal", token, auth.user.id, <<id, title>>, 200, "", {db_goal}, "")
         /\ UNCHANGED <<dialect, users, subjects, chapters, notifications, now, issued, reqs>>

\* (variant: the goal's subjects are not deleted)
SubjectsKept(goal_id) == subjects

\* db.query(Subject).filter(Subject.goal_id == goal_id).delete(): the subjects left.
SubjectsAfterGoalDelete(goal_id) == {s \in subjects : s.goal_id # goal_id}

\* chapters.subject_id REFERENCES subjects.id: a bulk DELETE runs no ORM cascade,
\* so a chapter of a removed subject is a violation where the engine checks it.
ChapterFkHolds(subjects_left) ==
    ~FkEnforced \/ \A c \in chapters : PkExists(subjects_left, c.subject_id)

DeleteGoal(token, goal_id) ==
    LET auth == get_current_user(token)
        db_goal == FindOwned(goals, goal_id, auth.user.id) IN
    IF ~auth.ok THEN Rejected("delete_goal", token, <<goal_id>>, auth)
    ELSE IF db_goal = {}
    THEN /\ last' = Resp("delete_goal", token, auth.user.id, <<goal_id>>, 404, "Goal not found", {}, "")
         /\ UNCHANGED <<dialect, users, goals, subjects, chapters, notifications, now, issued, reqs>>
    ELSE IF ~ChapterFkHolds(SubjectsAfterGoalDelete(goal_id))
    THEN /\ last' = Resp("delete_goal", token, auth.user.id, <<goal_id>>, 500, "IntegrityError", {}, "")
         /\ UNCHANGED <<dialect, users, goals, subjects, chapters, notifications, now, issued, reqs>>
    ELSE /\ subjects' = SubjectsAfterGoalDelete(goal_id)
         /\ goals' = goals \ db_goal
         /\ last' = [Resp("delete_goal", token, auth.user.id, <<goal_id>>, 200, "Goal deleted", {}, "")
                        EXCEPT !.removed = {s.id : s \in subjects \ SubjectsAfterGoalDelete(goal_id)}]
         /\ UNCHANGED <<dialect, users, chapters, notifications, now, issued, reqs>>

\* ------------------------------------------------------------ subjects
ReadSubjects(token) ==
    LET auth == get_current_user(token) IN
    IF ~auth.ok THEN Rejected("read_subjects", token, NoArgs, auth)
    ELSE /\ last' = Resp("read_subjects", token, auth.user.id, NoArgs, 200, "",
                         ListOwned(subjects, auth.user.id), "")
         /\ UNCHANGED <<dialect, users, goals, subjects, chapters, notifications, now, issued, reqs>>

CreateOrUpdateSubject(token, id, goalId, name) ==
    LET auth == get_current_user(token)
        db_subject == FindOwned(subjects, id, auth.user.id)
        data == [id |-> id, goal_id |-> goalId, name |-> name, owner_id |-> auth.user.id]
        args == <<id, goalId, name>> IN
    IF ~auth.ok THEN Rejected("create_or_update_subject", token, args, auth)
    ELSE IF \/ db_subject = {} /\ ~InsertAllowed(subjects, id)
            \/ ~GoalFkHolds(goalId)
    THEN /\ last' = Resp("create_or_update_subject", token, auth.user.id, args, 500, "IntegrityError", {}, "")
         /\ UNCHANGED <<dialect, users, goals, subjects, chapters, notifications, now, issued, reqs>>
    ELSE /\ subjects' = (subjects \ db_subject) \cup {data}
         /\ last' = Resp("create_or_update_subject", token, auth.user.id, args, 200, "", {data}, "")
         /\ UNCHANGED <<dialect, users, goals, chapters, notifications, now, issued, reqs>>

\* relationship("Chapter", cascade="all, delete-orphan"): db.delete(subject) takes its chapters.
ChaptersAfterSubjectDelete(subject_id) == {c \in chapters : c.subject_id # subject_id}

DeleteSubject(token, subject_id) ==
    LET auth == get_current_user(token)
        db_subject == FindOwned(subjects, subject_id, auth.user.id) IN
    IF ~auth.ok THEN Rejected("delete_subject", token, <<subject_id>>, auth)
    ELSE IF db_subject = {}
    THEN /\ last' = Resp("delete_subject", token, auth.user.id, <<subject_id>>, 404, "Subject not found", {}, "")
         /\ UNCHANGED <<dialect, users, goals, subjects, chapters, notifications, now, issued, reqs>>
    ELSE /\ subjects' = subjects \ db_subject
         /\ chapters' = ChaptersAfterSubjectDelete(subject_id)
         /\ last' = [Resp("delete_subject", token, auth.user.id, <<subject_id>>, 200, "Subject deleted", {}, "")
                        EXCEPT !.removed = {c.id : c \in chapters \ ChaptersAfterSubjectDelete(subject_id)}]
         /\ UNCHANGED <<dialect, users, goals, notifications, now, issued, reqs>>

\* ------------------------------------------------------------ notifications
NotifItems == [id : NotifIds, status : Statuses]

\* The request bodies of POST /notifications/sync: lists of at most MaxBatch items.
Batches == UNION {[1..n -> NotifItems] : n \in 0..MaxBatch}

Range(seq) == {seq[i] : i \in DOMAIN seq}

\* read_notifications(current_user, db), also as sync_notifications calls it.
read_notifications(owner, table) == ListOwned(table, owner)

ReadNotifications(token) ==
    LET auth == get_current_user(token) IN
    IF ~auth.ok THEN Rejected("read_notifications", token, NoArgs, auth)
    ELSE /\ last' = Resp("read_notifications", token, auth.user.id, NoArgs, 200, "",
                         read_notifications(auth.user.id, notifications), "")
         /\ UNCHANGED <<dialect, users, goals, subjects, chapters, notifications, now, issued, reqs>>

\* The loop of sync_notifications over one session (autoflush off: every lookup
\* reads the committed table): the rows it modified and the rows it added.
RECURSIVE SyncLoop(_, _, _)
SyncLoop(items, owner, session) ==
    IF items = <<>> THEN session
    ELSE LET n == Head(items)
             db_n == FindOwned(notifications, n.id, owner)
             data == [id |-> n.id, status |-> n.status, owner_id |-> owner]
         IN IF db_n # {}
            THEN SyncLoop(Tail(items), owner,
                          [session EXCEPT !.dirty = {r \in @ : r.id # n.id} \cup {data}])
            ELSE SyncLoop(Tail(items), owner,
                          [session EXCEPT !.new = Append(@, data)])

\* db.commit(): every pending INSERT passes the primary key, among themselves too.
FlushAllowed(session) ==
    /\ \A i \in DOMAIN session.new : InsertAllowed(notifications, session.new[i].id)
    /\ \A i, j \in DOMAIN session.new : i # j => session.new[i].id # session.new[j].id

Flushed(session) ==
    {r \in notifications : \A d \in session.dirty : d.id # r.id}
        \cup session.dirty \cup Range(session.new)

SyncNotifications(token, items) ==
    LET auth == get_current_user(token)
        session == SyncLoop(items, auth.user.id, [dirty |-> {}, new |-> <<>>]) IN
    IF ~auth.ok THEN Rejected("sync_notifications", token, items, auth)
    ELSE IF ~FlushAllowed(session)
    THEN /\ last' = Resp("sync_notifications", token, auth.user.id, items, 500, "IntegrityError", {}, "")
         /\ UNCHANGED <<dialect, users, goals, subjects, chapters, notifications, now, issued, reqs>>
    ELSE /\ notifications' = Flushed(session)
         /\ last' = Resp("sync_notifications", token, auth.user.id, items, 200, "",
                         read_notifications(auth.user.id, Flushed(session)), "")
         /\ UNCHANGED <<dialect, users, goals, subjects, chapters, now, issued, reqs>>

\* ------------------------------------------------------------ specifications
Idle == [pc |-> "idle", op |-> "", caller |-> 0, args |-> NoArgs, found |-> FALSE, status |-> 0]

Init ==
    /\ dialect \in Dialects
    /\ users = {}
    /\ goals = {}
    /\ subjects = {}
    /\ chapters = {}
    /\ notifications = {}
    /\ now = 0
    /\ issued = {}
    /\ last = Resp("", NoToken, 0, NoArgs, 0, "", {}, "")
    /\ reqs = [s \in Slots |-> Idle]

\* What a client can present: a token it was given, or one with a wrong signature.
ClientTokens == issued \cup {BadSignatureToken}

Next ==
    \/ \E e \in Emails, p \in Passwords : Signup(e, p)
    \/ \E e \in Emails, p \in LoginAttempts : Login(e, p)
    \/ \E t \in ClientTokens : ReadGoals(t)
    \/ \E t \in ClientTokens, g \in GoalIds, ti \in Titles : CreateGoal(t, g, ti)
    \/ \E t \in ClientTokens, g \in GoalIds : DeleteGoal(t, g)
    \/ \E t \in ClientTokens : ReadSubjects(t)
    \/ \E t \in ClientTokens, s \in SubjectIds, g \in GoalIds, n \in Names :
          CreateOrUpdateSubject(t, s, g, n)
    \/ \E t \in ClientTokens, s \in SubjectIds : DeleteSubject(t, s)

Spec == Init /\ [][Next]_vars

\* The notification endpoints on the default engine: the notifications table
\* refers to no other entity table, so no foreign key of it is ever at stake.
InitNotif == Init /\ dialect = "sqlite"

NextNotif ==
    \/ \E e \in Emails, p \in Passwords : Signup(e, p)
    \/ \E e \in Emails, p \in Passwords : Login(e, p)
    \/ \E t \in ClientTokens : ReadNotifications(t)
    \/ \E t \in issued, items \in Batches : SyncNotifications(t, items)

SpecNotif == InitNotif /\ [][NextNotif]_vars

\* Every entity type side by side, over one goal id, one subject id and one status.
OwnBatches == UNION {[1..n -> [id : NotifIds, status : {"PENDING"}]] : n \in 0..MaxBatch}

NextOwn ==
    \/ \E e \in Emails, p \in Passwords : Signup(e, p)
    \/ \E e \in Emails, p \in Passwords : Login(e, p)
    \/ \E t \in issued, ti \in Titles : CreateGoal(t, "g1", ti)
    \/ \E t \in issued : DeleteGoal(t, "g1")
    \/ \E t \in issued, n \in Names : CreateOrUpdateSubject(t, "s1", "g1", n)
    \/ \E t \in issued : DeleteSubject(t, "s1")
    \/ \E t \in issued, items \in OwnBatches : SyncNotifications(t, items)

SpecOwn == Init /\ [][NextOwn]_vars

\* The identity resolver under a moving clock and every kind of bearer token.
AnyTokens == issued \cup ForeignTokens \cup {BadSignatureToken, NoSubToken}

NextAuth ==
    \/ \E e \in Emails, p \in Passwords : Signup(e, p)
    \/ \E e \in Emails, p \in LoginAttempts : Login(e, p)
    \/ Tick
    \/ \E t \in AnyTokens : ReadGoals(t)
    \/ \E t \in AnyTokens, ti \in Titles : CreateGoal(t, "g1", ti)
    \/ \E t \in AnyTokens : DeleteGoal(t, "g1")

SpecAuth == Init /\ [][NextAuth]_vars

\* ------------------------------------------------------------ concurrent requests
\* Handlers run on worker threads, one session each: a request's query and its
\* commit are separate steps, and another request's steps may fall between them.
InFlight(op, caller, args, found) ==
    [pc |-> "queried", op |-> op, caller |-> caller, args |-> args, found |-> found, status |-> 0]

Done(op, caller, args, found, status) ==
    [pc |-> "done", op |-> op, caller |-> caller, args |-> args, found |-> found, status |-> status]

SignupQuery(s, email, password) ==
    /\ reqs[s].pc = "idle"
    /\ reqs' = [reqs EXCEPT ![s] =
                    IF EmailRegistered(email)
                    THEN Done("signup", 0, <<email, password>>, TRUE, 400)
                    ELSE InFlight("signup", 0, <<email, password>>, FALSE)]
    /\ UNCHANGED <<dialect, users, goals, subjects, chapters, notifications, now, issued, last>>

SignupCommit(s) ==
    LET r == reqs[s]
        new_user == [id |-> Cardinality(users) + 1, email |-> r.args[1],
                     hashed_password |-> get_password_hash(r.args[2])] IN
    /\ r.pc = "queried"
    /\ r.op = "signup"
    /\ IF UserByEmail(r.args[1]) # {}
       THEN \* users.email is UNIQUE: the commit raises IntegrityError
            /\ reqs' = [reqs EXCEPT ![s] = Done(r.op, r.caller, r.args, r.found, 500)]
            /\ UNCHANGED users
       ELSE /\ users' = users \cup {new_user}
            /\ reqs' = [reqs EXCEPT ![s] = Done(r.op, r.caller, r.args, r.found, 200)]
    /\ UNCHANGED <<dialect, goals, subjects, chapters, notifications, now, issued, last>>

SubjectQuery(s, token, id, goalId, name) ==
    LET auth == get_current_user(token)
        db_subject == FindOwned(subjects, id, auth.user.id) IN
    /\ reqs[s].pc = "idle"
    /\ reqs' = [reqs EXCEPT ![s] =
                    IF ~auth.ok
                    THEN Done("create_or_update_subject", 0, <<id, goalId, name>>, FALSE, auth.status)
                    ELSE InFlight("create_or_update_subject", auth.user.id, <<id, goalId, name>>,
                                  db_subject # {})]
    /\ UNCHANGED <<dialect, users, goals, subjects, chapters, notifications, now, issued, last>>

SubjectCommit(s) ==
    LET r == reqs[s]
        data == [id |-> r.args[1], goal_id |-> r.args[2], name |-> r.args[3], owner_id |-> r.caller] IN
    /\ r.pc = "queried"
    /\ r.op = "create_or_update_subject"
    /\ IF \/ ~r.found /\ ~InsertAllowed(subjects, r.args[1])
          \/ ~GoalFkHolds(r.args[2])
       THEN /\ reqs' = [reqs EXCEPT ![s] = Done(r.op, r.caller, r.args, r.found, 500)]
            /\ UNCHANGED subjects
       ELSE /\ subjects' = (subjects \ FindOwned(subjects, r.args[1], r.caller)) \cup {data}
            /\ reqs' = [reqs EXCEPT ![s] = Done(r.op, r.caller, r.args, r.found, 200)]
    /\ UNCHANGED <<dialect, users, goals, chapters, notifications, now, issued, last>>

\* The response is sent and the worker takes the next request.
Finish(s) ==
    /\ reqs[s].pc = "done"
    /\ reqs' = [reqs EXCEPT ![s] = Idle]
    /\ UNCHANGED <<dialect, users, goals, subjects, chapters, notifications, now, issued, last>>

NextConc ==
    \/ \E s \in Slots, e \in Emails, p \in Passwords : SignupQuery(s, e, p)
    \/ \E s \in Slots : SignupCommit(s)
    \/ \E e \in Emails, p \in Passwords : Login(e, p)
    \/ \E s \in Slots, t \in ClientTokens, n \in Names : SubjectQuery(s, t, "s1", "g1", n)
    \/ \E s \in Slots : SubjectCommit(s)
    \/ \E s \in Slots : Finish(s)

SpecConc == Init /\ [][NextConc]_vars

\* ------------------------------------------------------------ properties
UserIds == {u.id : u \in users}

OwnedBy(table, owner) == {r \in table : r.owner_id = owner}

ProtectedOps == {"read_goals", "create_goal", "delete_goal", "read_subjects",
                 "create_or_update_subject", "delete_subject",
                 "read_notifications", "sync_notifications"}

\* A step that serves one whole request (the clock and the requests in flight stand still).
RequestStep == now' = now /\ reqs' = reqs

\* C1: a request made by user B never returns a row owned by another user A and
\* never changes or removes a row owned by A, whatever ids B supplies.
C1_OwnerIsolation ==
    [][(RequestStep /\ last'.op \in ProtectedOps) =>
          \A a \in UserIds : a # last'.caller =>
              /\ OwnedBy(goals', a) = OwnedBy(goals, a)
              /\ OwnedBy(subjects', a) = OwnedBy(subjects, a)
              /\ OwnedBy(notifications', a) = OwnedBy(notifications, a)
              /\ \A r \in last'.body : r.owner_id # a]_vars

UpsertOps == {"create_goal", "create_or_update_subject", "sync_notifications"}

\* C3: the same upsert (owner, id, fields) applied a second time in sequence
\* succeeds again and leaves the store as the first application left it, with
\* one row of that id.
C3_UpsertIdempotent ==
    [][(/\ last.op \in UpsertOps
        /\ last.status = 200
        /\ last'.op = last.op
        /\ last'.token = last.token
        /\ last'.args = last.args
        /\ RequestStep) =>
          /\ last'.status = 200
          /\ store' = store]_vars

RowOf(table, id, owner) == {r \in table : r.id = id /\ r.owner_id = owner}

OwnerKept(old, new) == \A r \in old, q \in new : r.id = q.id => r.owner_id = q.owner_id

HeldByOther(table, id, b) == \E r \in table : r.id = id /\ r.owner_id # b

OthersUntouched(old, new, b) == \A a \in UserIds : a # b => OwnedBy(new, a) = OwnedBy(old, a)

C5_SignupEmailTaken ==
    /\ [](\A u, v \in users : u.email = v.email => u = v)
    /\ [][(RequestStep /\ last'.op = "signup" /\ UserByEmail(last'.args[1]) # {}) =>
             /\ last'.status = 400
             /\ last'.detail = "Email already registered"
             /\ users' = users]_vars

\* C5's case: a signup was refused for an email that is registered.
C5_Witness ==
    /\ last.op = "signup"
    /\ last.status = 400
    /\ UserByEmail(last.args[1]) # {}
    /\ Cardinality(users) = 2

Accepts(t) == get_current_user(t).ok

\* C6: a protected request presenting an issued token is accepted while the
\* clock is before the token's expiry and refused as unauthenticated once the
\* clock is past it; a refused token is never accepted again, and no step
\* makes an accepted token refused while the clock is still before its expiry.
C6_TokenLifetime ==
    [][/\ (RequestStep /\ last'.op \in ProtectedOps /\ last'.token \in issued) =>
             /\ now < last'.token.exp => (last'.status # 401 /\ last'.caller # 0)
             /\ now > last'.token.exp =>
                    (last'.status = 401 /\ last'.detail = credentials_exception.detail)
       /\ \A t \in issued :
             /\ ~Accepts(t) => ~Accepts(t)'
             /\ (Accepts(t) /\ now' < t.exp) => Accepts(t)']_vars

\* C6's case: an issued token was presented after its expiry and refused.
C6_Witness ==
    /\ last.op \in ProtectedOps
    /\ last.token \in issued
    /\ now > last.token.exp
    /\ last.status = 401

AuthFailureCauses == {"invalid_token", "no_claim", "unknown_user"}

Observable(r) == <<r.status, r.detail>>

\* C7: whatever makes the identity resolver fail (a token that does not
\* validate, a token without an identity claim, a claim no user matches), the
\* response is the same one, the handler returns nothing and the store is unchanged.
C7_UniformUnauthenticated ==
    /\ [](\A t1, t2 \in AnyTokens : (~Accepts(t1) /\ ~Accepts(t2)) =>
             Observable(get_current_user(t1)) = Observable(get_current_user(t2)))
    /\ [](last.cause \in AuthFailureCauses =>
             /\ Observable(last) = Observable(credentials_exception)
             /\ last.body = {}
             /\ last.caller = 0)
    /\ [][(RequestStep /\ last'.cause \in AuthFailureCauses) => store' = store]_vars

\* C7's case: a mutating request was refused because no user matches the claim,
\* while the store holds rows it could have touched.
C7_Witness ==
    /\ last.cause = "unknown_user"
    /\ last.op = "delete_goal"
    /\ goals # {}

SentRow(item, owner) == [id |-> item.id, status |-> item.status, owner_id |-> owner]

SyncStep == RequestStep /\ last'.op = "sync_notifications" /\ last'.caller # 0

C9_SyncElementsIndependent ==
    [][SyncStep =>
          \A i \in DOMAIN last'.args :
              ~HeldByOther(notifications, last'.args[i].id, last'.caller) =>
                  RowOf(notifications', last'.args[i].id, last'.caller) # {}]_vars

TaxonomyStatuses == {400, 401, 404, 422}

SameKey(a, b) == a.op = b.op /\ a.caller = b.caller /\ a.args[1] = b.args[1]

RowsOfKey(r) ==
    IF r.op = "signup" THEN UserByEmail(r.args[1])
    ELSE {x \in subjects : x.id = r.args[1]}

\* The key can be written by this caller without any other request around: the
\* referenced goal passes the foreign key and no other user holds the id.
Writable(r) ==
    r.op = "signup" \/
        (r.caller # 0 /\ GoalFkHolds(r.args[2]) /\ ~HeldByOther(subjects, r.args[1], r.caller))

\* C10: two requests that each look a key up and then write it (two upserts of
\* one (owner, id), two signups of one email) leave exactly one row of that key,
\* and each ends in success or in one of the four taxonomy errors, however
\* their steps interleave.
C10_NoLockingNeeded ==
    \A s1, s2 \in Slots :
        (/\ s1 # s2
         /\ reqs[s1].pc = "done"
         /\ reqs[s2].pc = "done"
         /\ SameKey(reqs[s1], reqs[s2])
         /\ Writable(reqs[s1])) =>
            /\ reqs[s1].status \in {200} \cup TaxonomyStatuses
            /\ reqs[s2].status \in {200} \cup TaxonomyStatuses
            /\ Cardinality(RowsOfKey(reqs[s1])) = 1

====
